---- MODULE Spec2Model ----
(***************************************************************************)
(* The IMAP client of src/client.rs (IMAPStream): tag generation, command  *)
(* encoding, greeting consumption, response collection, status parsing,    *)
(* mailbox-status / capability parsing and RFC822 literal extraction.      *)
(*                                                                         *)
(* Bytes are one-character strings; a line, a command and the server's     *)
(* byte stream are sequences of bytes.  The server is a byte stream fixed  *)
(* in the initial state together with what a read meets once the stream is *)
(* used up: end-of-stream ("eof"), a transport error ("err"), or nothing   *)
(* yet ("open": the blocking read never returns).                          *)
(***************************************************************************)
EXTENDS Integers, Sequences, FiniteSets, TLC

VARIABLES pc, stream, closing, tag, wire_out, issued, op, before, result,
          batch, readerr, served, fuel

vars == <<pc, stream, closing, tag, wire_out, issued, op, before, result,
          batch, readerr, served, fuel>>

(***************************************************************************)
(* Bytes and character classes                                             *)
(***************************************************************************)
CR == "\r"
LF == "\n"
NUL == "0x00"
XFF == "0xFF"
REPLACEMENT == "uFFFD"

Digit == {"0", "1", "2", "3", "4", "5", "6", "7", "8", "9"}

Alpha == {"a", "b", "c", "d", "e", "f", "g", "h", "i", "j", "k", "l", "m",
          "n", "o", "p", "q", "r", "s", "t", "u", "v", "w", "x", "y", "z",
          "A", "B", "C", "D", "E", "F", "G", "H", "I", "J", "K", "L", "M",
          "N", "O", "P", "Q", "R", "S", "T", "U", "V", "W", "X", "Y", "Z"}

Alnum == Digit \cup Alpha

White == {" ", "\t", CR, LF, "\f"}

DigitChars == <<"0", "1", "2", "3", "4", "5", "6", "7", "8", "9">>

DigitVal(c) == (CHOOSE i \in 1..10 : DigitChars[i] = c) - 1

SetMax(S) == CHOOSE x \in S : \A y \in S : y <= x

SetMin(S) == CHOOSE x \in S : \A y \in S : x <= y

(***************************************************************************)
(* Sequence helpers used by the matchers                                   *)
(***************************************************************************)
\* str::starts_with
starts_with(line, t) ==
    Len(line) >= Len(t) /\ SubSeq(line, 1, Len(t)) = t

\* the literal text lit stands in s at position i
HasAt(s, i, lit) ==
    i >= 1 /\ i + Len(lit) - 1 <= Len(s) /\ SubSeq(s, i, i + Len(lit) - 1) = lit

\* first index of byte b in s, 0 when absent
IndexOf(s, b) ==
    IF \E i \in 1..Len(s) : s[i] = b
    THEN SetMin({i \in 1..Len(s) : s[i] = b})
    ELSE 0

(***************************************************************************)
(* Decimal text <-> numbers                                                *)
(***************************************************************************)
RECURSIVE Decimal(_)
\* format!("{}", n) for an unsigned integer
Decimal(n) ==
    IF n < 10 THEN <<DigitChars[n + 1]>>
    ELSE Decimal(n \div 10) \o <<DigitChars[(n % 10) + 1]>>

RECURSIVE StripZeros(_)
\* the canonical decimal text of a digit string (what the parsed integer
\* prints as): leading zeros dropped, "0" for zero
StripZeros(d) ==
    IF Len(d) > 1 /\ d[1] = "0" THEN StripZeros(Tail(d)) ELSE d

RECURSIVE LexLeq(_, _)
\* d <= e for digit strings of equal length
LexLeq(d, e) ==
    IF d = <<>> THEN TRUE
    ELSE IF DigitVal(d[1]) < DigitVal(e[1]) THEN TRUE
    ELSE IF DigitVal(d[1]) > DigitVal(e[1]) THEN FALSE
    ELSE LexLeq(Tail(d), Tail(e))

FitsIn(d, max) ==
    LET c == StripZeros(d)
    IN Len(c) < Len(max) \/ (Len(c) = Len(max) /\ LexLeq(c, max))

U32_MAX == <<"4", "2", "9", "4", "9", "6", "7", "2", "9", "5">>

USIZE_MAX == <<"1", "8", "4", "4", "6", "7", "4", "4", "0", "7",
               "3", "7", "0", "9", "5", "5", "1", "6", "1", "5">>

\* str::parse::<u32>() on a non-empty digit string: <<value>> (the value as
\* canonical decimal text, u32 values exceed the model checker's integers)
\* or <<>> when the value does not fit 32 bits
parse_u32(d) == IF FitsIn(d, U32_MAX) THEN <<StripZeros(d)>> ELSE <<>>

RECURSIVE DigitsToNat(_)
DigitsToNat(d) ==
    IF d = <<>> THEN 0
    ELSE 10 * DigitsToNat(SubSeq(d, 1, Len(d) - 1)) + DigitVal(d[Len(d)])

(***************************************************************************)
(* Literal texts of the patterns and of the command and error strings      *)
(***************************************************************************)
T_CRLF == <<CR, LF>>

T_STAR_SP == <<"*", " ">>

T_EXISTS == <<" ", "E", "X", "I", "S", "T", "S", CR, LF>>

T_RECENT == <<" ", "R", "E", "C", "E", "N", "T", CR, LF>>

T_FLAGS == <<"*", " ", "F", "L", "A", "G", "S", " ">>

T_UNSEEN == <<"O", "K", " ", "[", "U", "N", "S", "E", "E", "N", " ">>

T_UID_VALIDITY == <<"O", "K", " ", "[", "U", "I", "D", "V", "A", "L", "I", "D", "I", "T", "Y", " ">>

T_UID_NEXT == <<"O", "K", " ", "[", "U", "I", "D", "N", "E", "X", "T", " ">>

T_PERMANENT_FLAGS == <<"O", "K", " ", "[", "P", "E", "R", "M", "A", "N", "E", "N", "T", "F", "L", "A", "G", "S", " ">>

T_CLOSE_CRLF == <<"]", CR, LF>>

T_CAPABILITY == <<"*", " ", "C", "A", "P", "A", "B", "I", "L", "I", "T", "Y", " ">>

T_FETCH == <<"F", "E", "T", "C", "H">>

T_RFC822 == <<"(", "R", "F", "C", "8", "2", "2">>

T_OK == <<"O", "K">>

(***************************************************************************)
(* Regular expressions.  A pattern is a sequence of items: a literal text, *)
(* or a greedy repetition of a character class (at least min characters),  *)
(* which may be a capture group.  Captures(re, line) is <<>> when the line *)
(* does not match and <<groups>> (the tuple of the capture groups) when it *)
(* does; a repetition takes the longest run that lets the rest match.      *)
(***************************************************************************)
Lit(s) == [t |-> "lit", s |-> s, c |-> "", min |-> 0, cap |-> FALSE]

Rep(c, min, cap) == [t |-> "rep", s |-> <<>>, c |-> c, min |-> min, cap |-> cap]

InClass(b, c) ==
    IF c = "digit" THEN b \in Digit
    ELSE IF c = "alnum" THEN b \in Alnum
    ELSE IF c = "space" THEN b \in White
    ELSE b # LF

\* length of the longest run of characters of class c in s from position i
Run(s, i, c) ==
    IF i > Len(s) THEN 0
    ELSE SetMax({k \in 0..(Len(s) - i + 1) : \A j \in i..(i + k - 1) : InClass(s[j], c)})

RECURSIVE MatchAt(_, _, _, _)
RECURSIVE RepTry(_, _, _, _, _)
RECURSIVE RepPick(_, _, _, _, _, _)
\* items j.. of the pattern matched against the line from position pos
MatchAt(items, j, line, pos) ==
    IF j > Len(items) THEN << <<>> >>
    ELSE IF items[j].t = "lit"
    THEN IF HasAt(line, pos, items[j].s)
         THEN MatchAt(items, j + 1, line, pos + Len(items[j].s))
         ELSE <<>>
    ELSE RepTry(items, j, line, pos, Run(line, pos, items[j].c))

\* the repetition items[j] taking k characters, the longest run first
RepTry(items, j, line, pos, k) ==
    IF k < items[j].min THEN <<>>
    ELSE RepPick(items, j, line, pos, k, MatchAt(items, j + 1, line, pos + k))

\* r: how the rest of the pattern matches after the k characters
RepPick(items, j, line, pos, k, r) ==
    IF r = <<>> THEN RepTry(items, j, line, pos, k - 1)
    ELSE << (IF items[j].cap THEN <<SubSeq(line, pos, pos + k - 1)>> ELSE <<>>)
            \o r[1] >>

RECURSIVE FirstMatch(_, _, _)
RECURSIVE FirstPick(_, _, _, _)
\* the leftmost match of an unanchored pattern, tried from position i on
FirstMatch(items, line, i) ==
    IF i > Len(line) + 1 THEN <<>>
    ELSE FirstPick(items, line, i, MatchAt(items, 1, line, i))

FirstPick(items, line, i, r) ==
    IF r = <<>> THEN FirstMatch(items, line, i + 1) ELSE r

\* Regex::captures(line)
Captures(re, line) ==
    IF re.anchored THEN MatchAt(re.items, 1, line, 1)
    ELSE FirstMatch(re.items, line, 1)

\* ^\* (\d+) EXISTS\r\n
EXISTS_REGEX ==
    [anchored |-> TRUE,
     items |-> <<Lit(T_STAR_SP), Rep("digit", 1, TRUE), Lit(T_EXISTS)>>]

\* ^\* (\d+) RECENT\r\n
RECENT_REGEX ==
    [anchored |-> TRUE,
     items |-> <<Lit(T_STAR_SP), Rep("digit", 1, TRUE), Lit(T_RECENT)>>]

\* ^\* FLAGS (.+)\r\n
FLAGS_REGEX ==
    [anchored |-> TRUE,
     items |-> <<Lit(T_FLAGS), Rep("dot", 1, TRUE), Lit(T_CRLF)>>]

\* ^OK \[UNSEEN (\d+)\](.*)\r\n
UNSEEN_REGEX ==
    [anchored |-> TRUE,
     items |-> <<Lit(T_UNSEEN), Rep("digit", 1, TRUE), Lit(<<"]">>),
                 Rep("dot", 0, TRUE), Lit(T_CRLF)>>]

\* ^OK \[UIDVALIDITY (\d+)\](.*)\r\n
UID_VALIDITY_REGEX ==
    [anchored |-> TRUE,
     items |-> <<Lit(T_UID_VALIDITY), Rep("digit", 1, TRUE), Lit(<<"]">>),
                 Rep("dot", 0, TRUE), Lit(T_CRLF)>>]

\* ^OK \[UIDNEXT (\d+)\](.*)\r\n
UID_NEXT_REGEX ==
    [anchored |-> TRUE,
     items |-> <<Lit(T_UID_NEXT), Rep("digit", 1, TRUE), Lit(<<"]">>),
                 Rep("dot", 0, TRUE), Lit(T_CRLF)>>]

\* ^OK \[PERMANENTFLAGS (.+)\]\r\n
PERMANENT_FLAGS_REGEX ==
    [anchored |-> TRUE,
     items |-> <<Lit(T_PERMANENT_FLAGS), Rep("dot", 1, TRUE), Lit(T_CLOSE_CRLF)>>]

\* ^\* CAPABILITY (.*)\r\n
capability_regex ==
    [anchored |-> TRUE,
     items |-> <<Lit(T_CAPABILITY), Rep("dot", 0, TRUE), Lit(T_CRLF)>>]

\* ^([a-zA-Z0-9]+) ([a-zA-Z0-9]+)(.*)
OK_REGEX ==
    [anchored |-> TRUE,
     items |-> <<Rep("alnum", 1, TRUE), Lit(<<" ">>), Rep("alnum", 1, TRUE),
                 Rep("dot", 0, TRUE)>>]

\* \*\s+([0-9]+)\s+FETCH\s+\(RFC822\s+\{([0-9]+)\}
FETCH_REGEX ==
    [anchored |-> FALSE,
     items |-> <<Lit(<<"*">>), Rep("space", 1, FALSE), Rep("digit", 1, TRUE),
                 Rep("space", 1, FALSE), Lit(T_FETCH), Rep("space", 1, FALSE),
                 Lit(T_RFC822), Rep("space", 1, FALSE), Lit(<<"{">>),
                 Rep("digit", 1, TRUE), Lit(<<"}">>)>>]

(***************************************************************************)
(* Results.  Every operation's result is one record: kind is "Ok" or "Err" *)
(* for a returned Result, "Panic" when the call panics, "Blocked" when a   *)
(* blocking read never returns, "Diverge" when a loop of the call never    *)
(* ends.  Optional values are sequences of length 0 (None) or 1 (Some).    *)
(***************************************************************************)
NoResult ==
    [kind |-> "None", lines |-> <<>>, mailbox |-> <<>>, caps |-> <<>>,
     msgs |-> <<>>, opt |-> <<>>, err |-> <<>>]

Ok == [NoResult EXCEPT !.kind = "Ok"]

Err(e) == [NoResult EXCEPT !.kind = "Err", !.err = <<e>>]

Panic == [NoResult EXCEPT !.kind = "Panic"]

Blocked == [NoResult EXCEPT !.kind = "Blocked"]

Diverge == [NoResult EXCEPT !.kind = "Diverge"]

\* an error handed up unchanged from the transport or the buffered reader
IoError == [kind |-> "Io", text |-> <<>>]

\* Error::new(ErrorKind::Other, text)
OtherError(text) == [kind |-> "Other", text |-> text]

E_FAILED_GREETING == <<"Failed to read the response">>

E_INVALID_RESPONSE == <<"Invalid Response: ">>

E_CAPABILITIES == <<"Error parsing capabilities response">>

(***************************************************************************)
(* The buffered reader over the server's byte stream s; eos says what a    *)
(* read meets when s is used up.                                           *)
(***************************************************************************)
\* a chunk of bytes is valid UTF-8 (0xFF is the stream's one invalid byte)
Utf8Ok(s) == \A i \in 1..Len(s) : s[i] # XFF

\* String::from_utf8_lossy
from_utf8_lossy(s) == [i \in 1..Len(s) |-> IF s[i] = XFF THEN REPLACEMENT ELSE s[i]]

\* read_line when the first LF of s is at position i (0: there is none)
read_line_at(s, eos, i) ==
    IF i > 0
    THEN [st |-> IF Utf8Ok(SubSeq(s, 1, i)) THEN "ok" ELSE "err",
          line |-> SubSeq(s, 1, i), rest |-> SubSeq(s, i + 1, Len(s))]
    ELSE IF eos = "eof"
    THEN [st |-> IF Utf8Ok(s) THEN "ok" ELSE "err", line |-> s, rest |-> <<>>]
    ELSE IF eos = "err"
    THEN [st |-> "err", line |-> <<>>, rest |-> <<>>]
    ELSE [st |-> "block", line |-> <<>>, rest |-> <<>>]

\* BufRead::read_line into an empty String: the bytes through the first LF
\* (or up to end-of-stream) are consumed; invalid UTF-8 is an error.
read_line(s, eos) == read_line_at(s, eos, IndexOf(s, LF))

\* Read::read_exact of n bytes
read_exact(s, n, eos) ==
    IF Len(s) >= n
    THEN [st |-> "ok", bytes |-> SubSeq(s, 1, n), rest |-> SubSeq(s, n + 1, Len(s))]
    ELSE [st |-> IF eos = "open" THEN "block" ELSE "err", bytes |-> <<>>, rest |-> <<>>]

(***************************************************************************)
(* Tag generation and command encoding                                     *)
(***************************************************************************)
TAG_PREFIX == <<"a">>

\* format!("{}{}", self.tag_prefix, self.tag)
command_tag_of(t) == TAG_PREFIX \o Decimal(t)

\* create_command with the counter left as it was
create_command_stale(command, t) ==
    [command |-> command_tag_of(t) \o <<" ">> \o command \o T_CRLF,
     command_tag |-> command_tag_of(t),
     tag |-> t]

\* a counter that advances by two per command
create_command_skips(command, t) ==
    [command |-> command_tag_of(t) \o <<" ">> \o command \o T_CRLF,
     command_tag |-> command_tag_of(t),
     tag |-> t + 2]

\* create_command: the command line, its tag, and the counter afterwards
create_command(command, t) ==
    [command |-> command_tag_of(t) \o <<" ">> \o command \o T_CRLF,
     command_tag |-> command_tag_of(t),
     tag |-> t + 1]

\* what one write() call of the transport does with the command line
WriteOutcomes == {"all", "short", "err"}

\* the write of send_command: wr is the outcome of the one write() call
\* (a short write is accepted as success: the byte count is dropped)
write_command(c, wr) ==
    [tag |-> c.tag,
     command_tag |-> c.command_tag,
     out |-> IF wr = "all" THEN c.command
             ELSE IF wr = "short" THEN SubSeq(c.command, 1, 1)
             ELSE <<>>,
     res |-> IF wr = "err" THEN Err(IoError) ELSE Ok]

\* send_command
send_command(untagged_command, t, wr) ==
    write_command(create_command(untagged_command, t), wr)

(***************************************************************************)
(* Response collection                                                     *)
(***************************************************************************)
RECURSIVE read_response_loop(_, _, _, _)
RECURSIVE read_response_step(_, _, _, _)
\* a collection that leaves the completion line it found in the stream
read_response_step_unread(r, t, eos, lines) ==
    IF r.st = "block"
    THEN [st |-> "Blocked", lines |-> lines, rest |-> r.rest, readerr |-> FALSE]
    ELSE IF r.st = "err"
    THEN [st |-> "Ok", lines |-> lines, rest |-> r.rest, readerr |-> TRUE]
    ELSE IF starts_with(r.line, t)
    THEN [st |-> "Ok", lines |-> Append(lines, r.line), rest |-> r.line \o r.rest,
          readerr |-> FALSE]
    ELSE IF r.rest = <<>> /\ eos = "eof"
    THEN [st |-> "Diverge", lines |-> Append(lines, r.line), rest |-> <<>>,
          readerr |-> FALSE]
    ELSE read_response_loop(r.rest, t, eos, Append(lines, r.line))

\* one turn of the loop of read_response, r being what read_line returned
read_response_step(r, t, eos, lines) ==
    IF r.st = "block"
    THEN [st |-> "Blocked", lines |-> lines, rest |-> r.rest, readerr |-> FALSE]
    ELSE IF r.st = "err"
    THEN [st |-> "Ok", lines |-> lines, rest |-> r.rest, readerr |-> TRUE]
    ELSE IF starts_with(r.line, t)
    THEN [st |-> "Ok", lines |-> Append(lines, r.line), rest |-> r.rest,
          readerr |-> FALSE]
    ELSE IF r.rest = <<>> /\ eos = "eof"
    THEN \* every further read_line returns Ok(0): empty lines are pushed forever
         [st |-> "Diverge", lines |-> Append(lines, r.line), rest |-> <<>>,
          readerr |-> FALSE]
    ELSE read_response_loop(r.rest, t, eos, Append(lines, r.line))

read_response_loop(s, t, eos, lines) ==
    read_response_step(read_line(s, eos), t, eos, lines)

\* read_response(tag)
read_response(s, t, eos) == read_response_loop(s, t, eos, <<>>)

\* the outcome of a call on the connection: its result, the stream left
\* unread, the counter, the bytes written, the lines read_response returned,
\* whether a read failed
Outcome(res, rest, t, ct, out, bat, rerr) ==
    [res |-> res, rest |-> rest, tag |-> t, command_tag |-> ct, out |-> out,
     batch |-> bat, readerr |-> rerr]

\* the match on read_response's return in run_command_with_response
collected(sc, rr) ==
    Outcome(IF rr.st = "Ok" THEN [Ok EXCEPT !.lines = rr.lines]
            ELSE IF rr.st = "Blocked" THEN Blocked ELSE Diverge,
            rr.rest, sc.tag, sc.command_tag, sc.out, rr.lines, rr.readerr)

\* run_command_with_response after send_command returned sc
collect(s, sc, eos) ==
    IF sc.res.kind = "Err"
    THEN Outcome(sc.res, s, sc.tag, sc.command_tag, sc.out, <<>>, FALSE)
    ELSE collected(sc, read_response(s, sc.command_tag, eos))

\* run_command_with_response
run_command_with_response(s, untagged_command, t, eos, wr) ==
    collect(s, send_command(untagged_command, t, wr), eos)

(***************************************************************************)
(* Status parsing                                                          *)
(***************************************************************************)
\* the loop over OK_REGEX.captures_iter(last_line) and the error after it
status_of(last_line, cap) ==
    IF cap # <<>> /\ cap[1][2] = T_OK
    THEN Ok
    ELSE Err(OtherError(E_INVALID_RESPONSE \o last_line))

\* parse_response_ok
parse_response_ok(lines) ==
    IF lines = <<>> THEN Panic
    ELSE status_of(lines[Len(lines)], Captures(OK_REGEX, lines[Len(lines)]))

\* the match on the batch in run_command_and_check_ok
check_ok(o) ==
    IF o.res.kind = "Ok" THEN [o EXCEPT !.res = parse_response_ok(o.res.lines)] ELSE o

\* run_command_and_check_ok
run_command_and_check_ok(s, command, t, eos, wr) ==
    check_ok(run_command_with_response(s, command, t, eos, wr))

(***************************************************************************)
(* Mailbox status (SELECT / EXAMINE)                                       *)
(***************************************************************************)
\* the IMAPMailbox the parser starts from
DefaultMailbox ==
    [flags |-> <<>>, exists |-> <<"0">>, recent |-> <<"0">>, unseen |-> <<>>,
     permanent_flags |-> <<>>, uid_next |-> <<>>, uid_validity |-> <<>>]

\* mailbox.f = parse::<u32>().unwrap(): <<>> when the unwrap panics
put_u32(mailbox, f, v) ==
    IF v = <<>> THEN <<>> ELSE <<[mailbox EXCEPT ![f] = v[1]]>>

\* mailbox.f = Some(parse::<u32>().unwrap())
put_some_u32(mailbox, f, v) ==
    IF v = <<>> THEN <<>> ELSE <<[mailbox EXCEPT ![f] = v]>>

\* a chain that keeps the first value a field was given
scan_apply_first_wins(mailbox, ex, re, fl, un, uv, ux, pf) ==
    IF ex # <<>>
    THEN IF mailbox.exists # DefaultMailbox.exists THEN <<mailbox>>
         ELSE put_u32(mailbox, "exists", parse_u32(ex[1][1]))
    ELSE IF re # <<>>
    THEN IF mailbox.recent # DefaultMailbox.recent THEN <<mailbox>>
         ELSE put_u32(mailbox, "recent", parse_u32(re[1][1]))
    ELSE IF fl # <<>>
    THEN IF mailbox.flags # DefaultMailbox.flags THEN <<mailbox>>
         ELSE <<[mailbox EXCEPT !.flags = fl[1][1]]>>
    ELSE IF un # <<>>
    THEN IF mailbox.unseen # <<>> THEN <<mailbox>>
         ELSE put_some_u32(mailbox, "unseen", parse_u32(un[1][1]))
    ELSE IF uv # <<>>
    THEN IF mailbox.uid_validity # <<>> THEN <<mailbox>>
         ELSE put_some_u32(mailbox, "uid_validity", parse_u32(uv[1][1]))
    ELSE IF ux # <<>>
    THEN IF mailbox.uid_next # <<>> THEN <<mailbox>>
         ELSE put_some_u32(mailbox, "uid_next", parse_u32(ux[1][1]))
    ELSE IF pf # <<>>
    THEN IF mailbox.permanent_flags # <<>> THEN <<mailbox>>
         ELSE <<[mailbox EXCEPT !.permanent_flags = <<pf[1][1]>>]>>
    ELSE <<mailbox>>

\* the if / else-if chain of the loop body, given the captures of the seven
\* patterns on the line: <<mailbox'>>, or <<>> when an unwrap panics
scan_apply(mailbox, ex, re, fl, un, uv, ux, pf) ==
    IF ex # <<>> THEN put_u32(mailbox, "exists", parse_u32(ex[1][1]))
    ELSE IF re # <<>> THEN put_u32(mailbox, "recent", parse_u32(re[1][1]))
    ELSE IF fl # <<>> THEN <<[mailbox EXCEPT !.flags = fl[1][1]]>>
    ELSE IF un # <<>> THEN put_some_u32(mailbox, "unseen", parse_u32(un[1][1]))
    ELSE IF uv # <<>> THEN put_some_u32(mailbox, "uid_validity", parse_u32(uv[1][1]))
    ELSE IF ux # <<>> THEN put_some_u32(mailbox, "uid_next", parse_u32(ux[1][1]))
    ELSE IF pf # <<>> THEN <<[mailbox EXCEPT !.permanent_flags = <<pf[1][1]>>]>>
    ELSE <<mailbox>>

RECURSIVE scan_lines(_, _, _)
RECURSIVE scan_next(_, _, _)
\* for line in lines.iter() { ... }, from line i on
scan_lines(lines, i, mailbox) ==
    IF i > Len(lines) THEN <<mailbox>>
    ELSE scan_next(lines, i,
                   scan_apply(mailbox,
                              Captures(EXISTS_REGEX, lines[i]),
                              Captures(RECENT_REGEX, lines[i]),
                              Captures(FLAGS_REGEX, lines[i]),
                              Captures(UNSEEN_REGEX, lines[i]),
                              Captures(UID_VALIDITY_REGEX, lines[i]),
                              Captures(UID_NEXT_REGEX, lines[i]),
                              Captures(PERMANENT_FLAGS_REGEX, lines[i])))

scan_next(lines, i, m) ==
    IF m = <<>> THEN <<>> ELSE scan_lines(lines, i + 1, m[1])

\* the value parse_select_or_examine returns after the status check st
mailbox_result(st, m) ==
    IF st.kind # "Ok" THEN st
    ELSE IF m = <<>> THEN Panic
    ELSE [Ok EXCEPT !.mailbox = m]

\* parse_select_or_examine
parse_select_or_examine(lines) ==
    mailbox_result(parse_response_ok(lines),
                   IF lines = <<>> THEN <<>> ELSE scan_lines(lines, 1, DefaultMailbox))

\* the match on the batch in select / examine
parsed_mailbox(o) ==
    IF o.res.kind = "Ok"
    THEN [o EXCEPT !.res = parse_select_or_examine(o.res.lines)]
    ELSE o

\* select / examine
select_or_examine(s, command, t, eos, wr) ==
    parsed_mailbox(run_command_with_response(s, command, t, eos, wr))

(***************************************************************************)
(* Capability list                                                         *)
(***************************************************************************)
RECURSIVE split_skip_empty(_, _)
\* a split that drops the empty pieces (as split_whitespace does)
split_skip_empty(s, sep) ==
    IF s = <<>> THEN <<>>
    ELSE IF IndexOf(s, sep) = 0 THEN <<s>>
    ELSE IF IndexOf(s, sep) = 1 THEN split_skip_empty(Tail(s), sep)
    ELSE <<SubSeq(s, 1, IndexOf(s, sep) - 1)>>
             \o split_skip_empty(SubSeq(s, IndexOf(s, sep) + 1, Len(s)), sep)

RECURSIVE split(_, _)
RECURSIVE split_at(_, _, _)
\* str::split(sep): the pieces between single separators, empty ones kept
split(s, sep) == split_at(s, sep, IndexOf(s, sep))

split_at(s, sep, i) ==
    IF i = 0 THEN <<s>>
    ELSE <<SubSeq(s, 1, i - 1)>> \o split(SubSeq(s, i + 1, Len(s)), sep)

\* the loop of parse_capability, hits being the lines capability_regex matches
first_capability(lines, hits) ==
    IF hits = {} THEN Err(OtherError(E_CAPABILITIES))
    ELSE [Ok EXCEPT !.caps =
             split(Captures(capability_regex, lines[SetMin(hits)])[1][1], " ")]

\* the value parse_capability returns after the status check st
capability_result(st, found) == IF st.kind # "Ok" THEN st ELSE found

\* parse_capability
parse_capability(lines) ==
    capability_result(
        parse_response_ok(lines),
        first_capability(lines, {i \in 1..Len(lines) :
                                    Captures(capability_regex, lines[i]) # <<>>}))

\* the match on the batch in capability
parsed_capability(o) ==
    IF o.res.kind = "Ok" THEN [o EXCEPT !.res = parse_capability(o.res.lines)] ELSE o

\* capability
capability(s, command, t, eos, wr) ==
    parsed_capability(run_command_with_response(s, command, t, eos, wr))

(***************************************************************************)
(* RFC822 literal extraction (fetch_messages)                              *)
(***************************************************************************)
\* HashMap::insert
Insert(m, k, v) == [x \in (DOMAIN m) \cup {k} |-> IF x = k THEN v ELSE m[x]]

\* the message the decoder builds from the text it is given
MimeMessage(text) == [text |-> text]

\* resp_size.parse::<usize>() on the digits of "{n}": <<n>>, or <<>> when
\* the value does not fit.  A size of more than 9 digits that fits is
\* more than any stream of the model holds: avail + 1 stands for it.
parse_usize(d, avail) ==
    IF ~FitsIn(d, USIZE_MAX) THEN <<>>
    ELSE IF Len(StripZeros(d)) > 9 THEN <<avail + 1>>
    ELSE <<DigitsToNat(StripZeros(d))>>

\* what a framer that reads the literal as a line would do
read_literal_as_line(s, n, eos) ==
    IF IndexOf(s, LF) > 0 /\ IndexOf(s, LF) < n
    THEN read_exact(s, IndexOf(s, LF), eos)
    ELSE read_exact(s, n, eos)

\* message_bytes.resize(n, 0); self.stream.read_exact(&mut message_bytes)
read_literal(s, n, eos) == read_exact(s, n, eos)

RECURSIVE fetch_loop(_, _, _, _, _)
RECURSIVE fetch_announce(_, _, _, _, _)
RECURSIVE fetch_unit(_, _, _, _, _, _)
RECURSIVE fetch_literal(_, _, _, _, _, _, _)
RECURSIVE fetch_decode(_, _, _, _, _, _)
RECURSIVE fetch_closing(_, _, _, _, _, _)

\* one turn of the loop of read_fetch_rfc822_response; k counts the literals
\* handed to the message decoder, which rejects the n-th when n \in rejects
fetch_loop(s, eos, messages, k, rejects) ==
    fetch_announce(read_line(s, eos), eos, messages, k, rejects)

\* r1: what the read_line of the announcement line returned (try!)
fetch_announce(r1, eos, messages, k, rejects) ==
    IF r1.st = "block" THEN [res |-> Blocked, rest |-> r1.rest, readerr |-> FALSE]
    ELSE IF r1.st = "err" THEN [res |-> Err(IoError), rest |-> r1.rest, readerr |-> TRUE]
    ELSE fetch_unit(r1.rest, Captures(FETCH_REGEX, r1.line), eos, messages, k, rejects)

\* m: FETCH_REGEX.captures(&fetch_line); no match ends the loop
fetch_unit(rest, m, eos, messages, k, rejects) ==
    IF m = <<>>
    THEN [res |-> [Ok EXCEPT !.msgs = messages], rest |-> rest, readerr |-> FALSE]
    ELSE fetch_literal(rest, m[1][1], parse_usize(m[1][2], Len(rest)), eos,
                       messages, k, rejects)

\* size: resp_size.parse::<usize>() (unwrap)
fetch_literal(rest, seqd, size, eos, messages, k, rejects) ==
    IF size = <<>>
    THEN [res |-> Panic, rest |-> rest, readerr |-> FALSE]
    ELSE fetch_decode(read_literal(rest, size[1], eos), parse_u32(seqd), eos,
                      messages, k, rejects)

\* x: what read_exact returned; only Ok(()) decodes and inserts, both by
\* unwrap; an error of read_exact is dropped
fetch_decode(x, seq, eos, messages, k, rejects) ==
    IF x.st = "block"
    THEN [res |-> Blocked, rest |-> x.rest, readerr |-> FALSE]
    ELSE IF x.st = "ok" /\ ((k + 1) \in rejects \/ seq = <<>>)
    THEN [res |-> Panic, rest |-> x.rest, readerr |-> FALSE]
    ELSE fetch_closing(read_line(x.rest, eos), x.st = "ok", eos,
                       IF x.st = "ok"
                       THEN Insert(messages, seq[1], MimeMessage(from_utf8_lossy(x.bytes)))
                       ELSE messages,
                       IF x.st = "ok" THEN k + 1 ELSE k, rejects)

\* r2: what the read_line after the literal returned (try!)
fetch_closing(r2, decoded, eos, messages, k, rejects) ==
    IF r2.st = "block" THEN [res |-> Blocked, rest |-> r2.rest, readerr |-> ~decoded]
    ELSE IF r2.st = "err" THEN [res |-> Err(IoError), rest |-> r2.rest, readerr |-> TRUE]
    ELSE [fetch_loop(r2.rest, eos, messages, k, rejects) EXCEPT !.readerr = @ \/ ~decoded]

\* read_fetch_rfc822_response
read_fetch_rfc822_response(s, eos, rejects) == fetch_loop(s, eos, <<>>, 0, rejects)

\* fetch_messages after send_command returned sc
fetched(sc, f) ==
    Outcome(f.res, f.rest, sc.tag, sc.command_tag, sc.out, <<>>, f.readerr)

fetch_after_send(s, sc, eos, rejects) ==
    IF sc.res.kind = "Err"
    THEN Outcome(sc.res, s, sc.tag, sc.command_tag, sc.out, <<>>, FALSE)
    ELSE fetched(sc, read_fetch_rfc822_response(s, eos, rejects))

\* fetch_messages
fetch_messages(s, command, t, eos, wr, rejects) ==
    fetch_after_send(s, send_command(command, t, wr), eos, rejects)

\* .map(|v| v.remove(&message_id))
remove_message(o, key) ==
    IF o.res.kind = "Ok"
    THEN [o EXCEPT !.res = [Ok EXCEPT !.opt = IF key \in DOMAIN o.res.msgs
                                              THEN <<o.res.msgs[key]>>
                                              ELSE <<>>]]
    ELSE o

\* fetch_message
fetch_message(s, command, message_id, t, eos, wr, rejects) ==
    remove_message(fetch_messages(s, command, t, eos, wr, rejects), Decimal(message_id))

(***************************************************************************)
(* Greeting and connect                                                    *)
(***************************************************************************)
\* the while condition of read_greeting
greeting_continues(line_buffer) ==
    \/ Len(line_buffer) < 2
    \/ /\ line_buffer[Len(line_buffer)] # LF
       /\ line_buffer[Len(line_buffer) - 1] # CR

RECURSIVE greeting_loop(_, _, _)
greeting_loop(s, eos, line_buffer) ==
    IF ~greeting_continues(line_buffer)
    THEN [res |-> Ok, rest |-> s]
    ELSE IF s # <<>>
    THEN greeting_loop(Tail(s), eos, Append(line_buffer, s[1]))
    ELSE IF eos = "err"
    THEN [res |-> Err(OtherError(E_FAILED_GREETING)), rest |-> s]
    ELSE IF eos = "open"
    THEN [res |-> Blocked, rest |-> s]
    ELSE \* read() returns Ok(0): the untouched 0 of the byte buffer is pushed;
         \* from the second such push on the last two bytes are 0, 0
         IF greeting_continues(Append(line_buffer, NUL))
         THEN [res |-> Diverge, rest |-> s]
         ELSE [res |-> Ok, rest |-> s]

\* read_greeting
read_greeting(s, eos) == greeting_loop(s, eos, <<>>)

\* how the transport comes up: TcpStream::connect fails, SslStream::connect
\* fails (unwrap), or a stream is there
NetOutcomes == {"up", "tcp_err", "ssl_err"}

\* the tag counter of a new IMAPStream
TAG_START == 1

\* connect
connect(s, eos, net) ==
    IF net = "tcp_err" THEN [res |-> Err(IoError), rest |-> s]
    ELSE IF net = "ssl_err" THEN [res |-> Panic, rest |-> s]
    ELSE read_greeting(s, eos)

(***************************************************************************)
(* Command texts (the format! strings of the public operations)            *)
(***************************************************************************)
SP == <<" ">>

V_LOGIN == <<"L", "O", "G", "I", "N">>

V_SELECT == <<"S", "E", "L", "E", "C", "T">>

V_EXAMINE == <<"E", "X", "A", "M", "I", "N", "E">>

V_FETCH == <<"F", "E", "T", "C", "H">>

V_NOOP == <<"N", "O", "O", "P">>

V_LOGOUT == <<"L", "O", "G", "O", "U", "T">>

V_CREATE == <<"C", "R", "E", "A", "T", "E">>

V_DELETE == <<"D", "E", "L", "E", "T", "E">>

V_RENAME == <<"R", "E", "N", "A", "M", "E">>

V_SUBSCRIBE == <<"S", "U", "B", "S", "C", "R", "I", "B", "E">>

V_UNSUBSCRIBE == <<"U", "N", "S", "U", "B", "S", "C", "R", "I", "B", "E">>

V_CAPABILITY == <<"C", "A", "P", "A", "B", "I", "L", "I", "T", "Y">>

V_COPY == <<"C", "O", "P", "Y">>

V_RFC822 == <<"R", "F", "C", "8", "2", "2">>

\* the arguments the caller passes
Users == {<<"u">>}

Passwords == {<<"p">>}

MailboxNames == {<<"m">>}

SequenceSets == {<<"1">>}

Queries == {<<"U", "I", "D">>}

MessageIds == {3, 7}

(***************************************************************************)
(* The state machine                                                       *)
(***************************************************************************)
\* the verdicts of the message decoder on the literals of one call: the set
\* of positions (1st, 2nd, ... literal decoded) it rejects
Rejects == SUBSET (1..2)

\* a call that returned leaves the connection usable; a panic, a read that
\* never returns or a loop that never ends does not
Apply(name, o) ==
    /\ op' = name
    /\ before' = stream
    /\ stream' = o.rest
    /\ tag' = o.tag
    /\ wire_out' = o.out
    /\ issued' = Append(issued, o.command_tag)
    /\ result' = o.res
    /\ batch' = o.batch
    /\ readerr' = o.readerr
    /\ pc' = IF o.res.kind \in {"Ok", "Err"} THEN "ready" ELSE "dead"
    /\ UNCHANGED <<closing, served, fuel>>

CanIssue == pc = "ready" /\ Len(issued) < fuel

Connected(net, c) ==
    /\ op' = "connect"
    /\ before' = stream
    /\ stream' = c.rest
    /\ result' = c.res
    /\ tag' = IF c.res.kind = "Ok" THEN TAG_START ELSE tag
    /\ pc' = IF c.res.kind = "Ok" THEN "ready" ELSE "dead"
    /\ readerr' = (c.res.kind = "Err" /\ net = "up")
    /\ UNCHANGED <<closing, wire_out, issued, batch, served, fuel>>

Connect ==
    /\ pc = "start"
    /\ \E net \in NetOutcomes : Connected(net, connect(stream, closing, net))

Login ==
    /\ CanIssue
    /\ \E u \in Users, p \in Passwords, wr \in WriteOutcomes :
          Apply("login", run_command_and_check_ok(
                    stream, V_LOGIN \o SP \o u \o SP \o p, tag, closing, wr))

Select ==
    /\ CanIssue
    /\ \E m \in MailboxNames, wr \in WriteOutcomes :
          Apply("select", select_or_examine(
                    stream, V_SELECT \o SP \o m, tag, closing, wr))

Examine ==
    /\ CanIssue
    /\ \E m \in MailboxNames, wr \in WriteOutcomes :
          Apply("examine", select_or_examine(
                    stream, V_EXAMINE \o SP \o m, tag, closing, wr))

Fetch ==
    /\ CanIssue
    /\ \E ss \in SequenceSets, q \in Queries, wr \in WriteOutcomes :
          Apply("fetch", run_command_with_response(
                    stream, V_FETCH \o SP \o ss \o SP \o q, tag, closing, wr))

FetchMessages ==
    /\ CanIssue
    /\ \E ss \in SequenceSets, wr \in WriteOutcomes, rejects \in Rejects :
          Apply("fetch_messages", fetch_messages(
                    stream, V_FETCH \o SP \o ss \o SP \o V_RFC822, tag, closing,
                    wr, rejects))

FetchMessage ==
    /\ CanIssue
    /\ \E id \in MessageIds, wr \in WriteOutcomes, rejects \in Rejects :
          Apply("fetch_message", fetch_message(
                    stream, V_FETCH \o SP \o Decimal(id) \o SP \o V_RFC822, id,
                    tag, closing, wr, rejects))

Noop ==
    /\ CanIssue
    /\ \E wr \in WriteOutcomes :
          Apply("noop", run_command_and_check_ok(stream, V_NOOP, tag, closing, wr))

Logout ==
    /\ CanIssue
    /\ \E wr \in WriteOutcomes :
          Apply("logout", run_command_and_check_ok(stream, V_LOGOUT, tag, closing, wr))

Create ==
    /\ CanIssue
    /\ \E m \in MailboxNames, wr \in WriteOutcomes :
          Apply("create", run_command_and_check_ok(
                    stream, V_CREATE \o SP \o m, tag, closing, wr))

Delete ==
    /\ CanIssue
    /\ \E m \in MailboxNames, wr \in WriteOutcomes :
          Apply("delete", run_command_and_check_ok(
                    stream, V_DELETE \o SP \o m, tag, closing, wr))

Rename ==
    /\ CanIssue
    /\ \E m \in MailboxNames, n \in MailboxNames, wr \in WriteOutcomes :
          Apply("rename", run_command_and_check_ok(
                    stream, V_RENAME \o SP \o m \o SP \o n, tag, closing, wr))

Subscribe ==
    /\ CanIssue
    /\ \E m \in MailboxNames, wr \in WriteOutcomes :
          Apply("subscribe", run_command_and_check_ok(
                    stream, V_SUBSCRIBE \o SP \o m, tag, closing, wr))

Unsubscribe ==
    /\ CanIssue
    /\ \E m \in MailboxNames, wr \in WriteOutcomes :
          Apply("unsubscribe", run_command_and_check_ok(
                    stream, V_UNSUBSCRIBE \o SP \o m, tag, closing, wr))

Capability ==
    /\ CanIssue
    /\ \E wr \in WriteOutcomes :
          Apply("capability", capability(stream, V_CAPABILITY, tag, closing, wr))

Copy ==
    /\ CanIssue
    /\ \E ss \in SequenceSets, m \in MailboxNames, wr \in WriteOutcomes :
          Apply("copy", run_command_and_check_ok(
                    stream, V_COPY \o SP \o ss \o SP \o m, tag, closing, wr))

Next ==
    \/ Connect
    \/ Login
    \/ Select
    \/ Examine
    \/ Fetch
    \/ FetchMessages
    \/ FetchMessage
    \/ Noop
    \/ Logout
    \/ Create
    \/ Delete
    \/ Rename
    \/ Subscribe
    \/ Unsubscribe
    \/ Capability
    \/ Copy

(***************************************************************************)
(* Server byte streams                                                     *)
(***************************************************************************)
RECURSIVE Flatten(_)
Flatten(ls) == IF ls = <<>> THEN <<>> ELSE Head(ls) \o Flatten(Tail(ls))

\* the sequences of at most n elements of S
SeqsUpTo(S, n) == UNION {[1..k -> S] : k \in 0..n}

\* the server's greeting line
GREETING == <<"*", " ", "O", "K", CR, LF>>

L_EXISTS == <<"*", " ", "1", " ", "E", "X", "I", "S", "T", "S", CR, LF>>

L_A1_OK == <<"a", "1", " ", "O", "K", " ", "d", CR, LF>>

L_A1_NO == <<"a", "1", " ", "N", "O", " ", "n", CR, LF>>

L_A10_OK == <<"a", "1", "0", " ", "O", "K", " ", "x", CR, LF>>

L_A1_BARE == <<"a", "1", CR, LF>>

L_A1_OKX == <<"a", "1", " ", "O", "K", "[", "x", "]", CR, LF>>

L_A2_OK == <<"a", "2", " ", "O", "K", " ", "d", CR, LF>>

L_CAPABILITY == <<"*", " ", "C", "A", "P", "A", "B", "I", "L", "I", "T", "Y", " ", "A", " ", "B", CR, LF>>

L_BAD_UTF8 == <<"*", " ", XFF, CR, LF>>

CommandLines ==
    {L_EXISTS, L_A1_OK, L_A1_NO, L_A10_OK, L_A1_BARE, L_A1_OKX, L_A2_OK,
     L_CAPABILITY, L_BAD_UTF8}

Closings == {"eof", "err", "open"}

\* the state before connect: s is the byte stream the server will have sent
\* and units the FETCH units it is made of (when it is made of such)
InitState(s, units, n) ==
    /\ pc = "start"
    /\ stream = s
    /\ closing \in Closings
    /\ tag = 0
    /\ wire_out = <<>>
    /\ issued = <<>>
    /\ op = "none"
    /\ before = <<>>
    /\ result = NoResult
    /\ batch = <<>>
    /\ readerr = FALSE
    /\ served = units
    /\ fuel = n

(***************************************************************************)
(* Spec: any mix of the public operations against streams of lines         *)
(***************************************************************************)
MaxLines == 2

MaxCmds == 2

CommandStreams == {GREETING \o Flatten(ls) : ls \in SeqsUpTo(CommandLines, MaxLines)}

Init == \E s \in CommandStreams : InitState(s, <<>>, MaxCmds)

Spec == Init /\ [][Next]_vars

(***************************************************************************)
(* SpecTags: long runs of commands, answered or failing                    *)
(***************************************************************************)
MaxTagCmds == 11

\* the completion line a well-behaved server sends for the i-th command
TaggedOk(i) == command_tag_of(i) \o <<" ", "O", "K", CR, LF>>

TagStreams ==
    {GREETING \o Flatten([i \in 1..k |-> TaggedOk(i)]) : k \in {0, MaxTagCmds}}

InitTags == \E s \in TagStreams : InitState(s, <<>>, MaxTagCmds)

SpecTags == InitTags /\ [][Next]_vars

(***************************************************************************)
(* SpecFetch: responses to FETCH ... RFC822                                *)
(***************************************************************************)
MaxUnits == 2

MaxFetchCmds == 1

LIT_CRLF == <<"H", CR, LF, "B">>

LIT_TAGGED == <<"a", "1", " ", "O", "K", CR, LF>>

LIT_FETCH == <<"*", " ", "2", " ", "F", "E", "T", "C", "H", " ", "(", "R", "F", "C", "8", "2", "2", " ", "{", "1", "}", CR, LF>>

LIT_EMPTY == <<>>

LIT_BAD_UTF8 == <<XFF, "z">>

\* the FETCH units the server sends: a sequence number and the raw bytes
Units ==
    {[seq |-> <<"3">>, bytes |-> LIT_CRLF],
     [seq |-> <<"1", "2">>, bytes |-> LIT_TAGGED],
     [seq |-> <<"3">>, bytes |-> LIT_FETCH],
     [seq |-> <<"1", "2">>, bytes |-> LIT_EMPTY],
     [seq |-> <<"7">>, bytes |-> LIT_BAD_UTF8]}

\* "* <seq> FETCH (RFC822 {n}" CRLF, the n bytes, ")" CRLF
UnitWire(u) ==
    <<"*", " ">> \o u.seq \o <<" ">> \o T_FETCH \o <<" ">> \o T_RFC822
        \o <<" ", "{">> \o Decimal(Len(u.bytes)) \o <<"}", CR, LF>>
        \o u.bytes \o <<")", CR, LF>>

FetchWire(units) == Flatten([i \in 1..Len(units) |-> UnitWire(units[i])])

TaggedLines == {L_A1_OK, L_A1_NO}

\* the response cut off one byte before the end of its last literal
CutInLastLiteral(units) ==
    SubSeq(FetchWire(units), 1, Len(FetchWire(units)) - 4)

FetchStreams(units) ==
    {GREETING \o FetchWire(units) \o tl : tl \in TaggedLines}
        \cup {GREETING \o CutInLastLiteral(units) :
                 x \in {u \in {units} : u # <<>> /\ u[Len(u)].bytes # <<>>}}

NextFetch ==
    \/ Connect
    \/ FetchMessages
    \/ FetchMessage
    \/ Noop

InitFetch ==
    \E units \in SeqsUpTo(Units, MaxUnits) :
        \E s \in FetchStreams(units) : InitState(s, units, MaxFetchCmds)

SpecFetch == InitFetch /\ [][NextFetch]_vars

(***************************************************************************)
(* SpecSelect: responses to SELECT / EXAMINE                               *)
(***************************************************************************)
MaxSelectLines == 2

MaxSelectCmds == 1

S_EXISTS_172 == <<"*", " ", "1", "7", "2", " ", "E", "X", "I", "S", "T", "S", CR, LF>>

S_EXISTS_5 == <<"*", " ", "5", " ", "E", "X", "I", "S", "T", "S", CR, LF>>

S_RECENT == <<"*", " ", "1", " ", "R", "E", "C", "E", "N", "T", CR, LF>>

S_FLAGS == <<"*", " ", "F", "L", "A", "G", "S", " ", "(", "\\", "A", ")", CR, LF>>

S_UIDVALIDITY == <<"O", "K", " ", "[", "U", "I", "D", "V", "A", "L", "I", "D", "I", "T", "Y", " ", "3", "8", "5", "7", "5", "2", "9", "0", "4", "5", "]", " ", "U", CR, LF>>

S_UNSEEN == <<"O", "K", " ", "[", "U", "N", "S", "E", "E", "N", " ", "0", "4", "]", CR, LF>>

S_UIDNEXT == <<"O", "K", " ", "[", "U", "I", "D", "N", "E", "X", "T", " ", "4", "3", "9", "2", "]", " ", "P", CR, LF>>

S_PERMANENT == <<"O", "K", " ", "[", "P", "E", "R", "M", "A", "N", "E", "N", "T", "F", "L", "A", "G", "S", " ", "(", "\\", "*", ")", "]", CR, LF>>

S_STAR_UNSEEN == <<"*", " ", "O", "K", " ", "[", "U", "N", "S", "E", "E", "N", " ", "9", "]", " ", "m", CR, LF>>

S_EXISTS_BIG == <<"*", " ", "4", "2", "9", "4", "9", "6", "7", "2", "9", "6", " ", "E", "X", "I", "S", "T", "S", CR, LF>>

SelectLines ==
    {S_EXISTS_172, S_EXISTS_5, S_RECENT, S_FLAGS, S_UIDVALIDITY, S_UNSEEN,
     S_UIDNEXT, S_PERMANENT, S_STAR_UNSEEN, S_EXISTS_BIG}

SelectStreams ==
    {GREETING \o Flatten(ls) \o tl :
        ls \in SeqsUpTo(SelectLines, MaxSelectLines), tl \in TaggedLines}

NextSelect ==
    \/ Connect
    \/ Select
    \/ Examine
    \/ Noop

InitSelect == \E s \in SelectStreams : InitState(s, <<>>, MaxSelectCmds)

SpecSelect == InitSelect /\ [][NextSelect]_vars

(***************************************************************************)
(* SpecGreeting: what the server sends on connect                          *)
(***************************************************************************)
MaxGreeting == 4

GreetingBytes == {CR, LF, "x"}

GreetingStreams == SeqsUpTo(GreetingBytes, MaxGreeting)

NextGreeting ==
    \/ Connect
    \/ Noop

InitGreeting == \E s \in GreetingStreams : InitState(s, <<>>, MaxCmds)

SpecGreeting == InitGreeting /\ [][NextGreeting]_vars

(***************************************************************************)
(* Vocabulary of the properties                                            *)
(***************************************************************************)
CheckOkOps ==
    {"login", "noop", "logout", "create", "delete", "rename", "subscribe",
     "unsubscribe", "copy"}

CollectOps == CheckOkOps \cup {"select", "examine", "fetch", "capability"}

FetchOps == {"fetch_messages", "fetch_message"}

CommandOps == CollectOps \cup FetchOps

\* the tag of the command the last operation issued
LastTag == issued[Len(issued)]

\* the bytes the last operation consumed from the stream
Consumed == SubSeq(before, 1, Len(before) - Len(stream))

RECURSIVE LinesOf(_)
\* a byte string cut into its lines (each through its LF)
LinesOf(s) ==
    IF s = <<>> THEN <<>>
    ELSE IF IndexOf(s, LF) = 0 THEN <<s>>
    ELSE <<SubSeq(s, 1, IndexOf(s, LF))>>
             \o LinesOf(SubSeq(s, IndexOf(s, LF) + 1, Len(s)))

RECURSIVE Tokens(_)
\* the whitespace-delimited tokens of a line
Tokens(line) ==
    IF line = <<>> THEN <<>>
    ELSE IF line[1] \in White THEN Tokens(Tail(line))
    ELSE LET k == SetMax({n \in 1..Len(line) : \A j \in 1..n : line[j] \notin White})
         IN <<SubSeq(line, 1, k)>> \o Tokens(SubSeq(line, k + 1, Len(line)))

FirstToken(line) == IF Tokens(line) = <<>> THEN <<>> ELSE Tokens(line)[1]

SecondToken(line) == IF Len(Tokens(line)) < 2 THEN <<>> ELSE Tokens(line)[2]

\* the last operation collected a batch and stopped on a line it took for
\* the completion line (not on a failed read)
BatchEnded ==
    /\ op \in CollectOps
    /\ batch # <<>>
    /\ ~readerr
    /\ result.kind \notin {"Blocked", "Diverge"}

(***************************************************************************)
(* C1: response collection ends the batch at the first line whose first    *)
(* whitespace-delimited token is exactly the outstanding tag; a line whose *)
(* first token only has the tag as a proper prefix (a10 while a1 is        *)
(* outstanding) is not taken as the completion line.                       *)
(***************************************************************************)
C1_ExactTagMatch ==
    BatchEnded =>
        /\ FirstToken(batch[Len(batch)]) = LastTag
        /\ \A i \in 1..(Len(batch) - 1) : FirstToken(batch[i]) # LastTag

(***************************************************************************)
(* C3: the tags of the commands issued on one connection are pairwise      *)
(* distinct, carry the prefix "a", and their numeric suffixes start at 1   *)
(* and strictly increase in issue order, failed commands included.         *)
(***************************************************************************)
TagNumber(t) == DigitsToNat(Tail(t))

C3_TagsDistinctIncreasing ==
    /\ \A i \in 1..Len(issued) :
          /\ starts_with(issued[i], TAG_PREFIX)
          /\ \A j \in 2..Len(issued[i]) : issued[i][j] \in Digit
    /\ Len(issued) >= 1 => issued[1] = <<"a", "1">>
    /\ \A i, j \in 1..Len(issued) :
          i < j => /\ issued[i] # issued[j]
                   /\ TagNumber(issued[i]) < TagNumber(issued[j])

\* ten or more commands were issued, the last of them failed, an earlier
\* one succeeded
C3_Witness ==
    /\ Len(issued) >= 10
    /\ result.kind = "Err"
    /\ Len(stream) < Len(GREETING \o TaggedOk(1))

(***************************************************************************)
(* C4: at most one command is outstanding: an operation returns            *)
(* successfully only after the tagged completion line of its own command   *)
(* has been consumed from the stream.                                      *)
(***************************************************************************)
C4_OwnCompletionConsumed ==
    (op \in CommandOps /\ result.kind = "Ok") =>
        \E i \in 1..Len(LinesOf(Consumed)) :
            FirstToken(LinesOf(Consumed)[i]) = LastTag

(***************************************************************************)
(* C5: an I/O error while the response of a command is read makes          *)
(* run_command_with_response, and every operation built on it, return an   *)
(* error; never a successful batch or status built from the lines read     *)
(* before the error.                                                       *)
(***************************************************************************)
C5_ReadErrorIsReturned ==
    (op \in CollectOps /\ readerr) => result.kind = "Err"

(***************************************************************************)
(* C2: for a response made of FETCH units (announcement line, n raw bytes, *)
(* closing line) followed by the tagged completion line, fetch_messages    *)
(* associates with each sequence number exactly the n bytes after its      *)
(* announcement line, also when they hold CR LF or text that looks like a  *)
(* tagged or FETCH line, and no literal shifts the next unit's boundaries: *)
(* the map is the one of the units sent and the whole response is consumed.*)
(***************************************************************************)
LastUnit(units, key) ==
    units[SetMax({i \in 1..Len(units) : StripZeros(units[i].seq) = key})]

\* the map a response made of these units stands for (a sequence number
\* sent twice keeps its last literal)
ExpectedMessages(units) ==
    [key \in {StripZeros(units[i].seq) : i \in 1..Len(units)} |->
        MimeMessage(from_utf8_lossy(LastUnit(units, key).bytes))]

C2_LiteralBytesExact ==
    (/\ op = "fetch_messages"
     /\ wire_out # <<>>
     /\ \E tl \in TaggedLines : before = FetchWire(served) \o tl) =>
        /\ result.kind \in {"Ok", "Panic"}
        /\ result.kind = "Ok" =>
              /\ result.msgs = ExpectedMessages(served)
              /\ stream = <<>>

\* two units were fetched whose literals hold a CR LF and a tagged line
C2_Witness ==
    /\ op = "fetch_messages"
    /\ result.kind = "Ok"
    /\ Len(served) = 2
    /\ served[1].bytes = LIT_CRLF
    /\ served[2].bytes = LIT_TAGGED
    /\ before = FetchWire(served) \o L_A1_OK
    /\ DOMAIN result.msgs = {<<"3">>, <<"1", "2">>}
    /\ result.msgs[<<"3">>].text = LIT_CRLF
    /\ result.msgs[<<"1", "2">>].text = LIT_TAGGED

(***************************************************************************)
(* C6: the status check looks only at the tagged completion line of the    *)
(* issued command: a status-checking operation succeeds if and only if the *)
(* second whitespace-delimited token of the line tagged with its own tag   *)
(* is OK; anything else gives a failure that carries that line.            *)
(***************************************************************************)
\* the first line of the response whose first token is the issued tag
OwnTaggedIndexes ==
    {i \in 1..Len(LinesOf(before)) : FirstToken(LinesOf(before)[i]) = LastTag}

OwnTaggedLine == LinesOf(before)[SetMin(OwnTaggedIndexes)]

C6_StatusFromOwnTaggedLine ==
    (/\ op \in CheckOkOps
     /\ wire_out # <<>>
     /\ ~readerr
     /\ result.kind \in {"Ok", "Err"}
     /\ OwnTaggedIndexes # {}) =>
        /\ result.kind = "Ok" <=> SecondToken(OwnTaggedLine) = T_OK
        /\ result.kind = "Err" =>
              result.err = <<OtherError(E_INVALID_RESPONSE \o OwnTaggedLine)>>

(***************************************************************************)
(* C7: a batch whose tagged completion line has fewer than two tokens      *)
(* gives a protocol error the caller can tell from the command failure a   *)
(* well-formed tagged NO gives.                                            *)
(***************************************************************************)
\* what a caller can test an error for: its kind and its fixed message
ErrorClass(e) == <<e.kind, IF e.text = <<>> THEN "" ELSE e.text[1]>>

CommandFailed == parse_response_ok(<<L_A1_NO>>).err[1]

C7_MalformedIsDistinct ==
    (/\ op \in CheckOkOps
     /\ BatchEnded
     /\ FirstToken(batch[Len(batch)]) = LastTag
     /\ Len(Tokens(batch[Len(batch)])) < 2) =>
        /\ result.kind = "Err"
        /\ ErrorClass(result.err[1]) # ErrorClass(CommandFailed)

(***************************************************************************)
(* C8: fetch_messages swallows no error: when the command is completed     *)
(* with a tagged NO, or when reading a literal fails or comes up short, it *)
(* returns an error and not a (possibly empty or partial) map.             *)
(***************************************************************************)
C8_FetchErrorsSurface ==
    (op = "fetch_messages" /\ wire_out # <<>>) =>
        /\ before = FetchWire(served) \o L_A1_NO => result.kind = "Err"
        /\ (readerr /\ result.kind # "Blocked") => result.kind = "Err"

(***************************************************************************)
(* C9: connect consumes the server's bytes exactly through the first       *)
(* CR LF pair and no further, before any command is written; a bare LF or  *)
(* a CR followed by another byte does not end the greeting.                *)
(***************************************************************************)
\* the position of the CR of the first CR LF pair, 0 when there is none
FirstCRLF(s) ==
    SetMin({i \in 1..(Len(s) - 1) : s[i] = CR /\ s[i + 1] = LF} \cup {Len(s) + 1})
        % (Len(s) + 1)

C9_GreetingThroughFirstCRLF ==
    (op = "connect" /\ result.kind = "Ok") =>
        /\ FirstCRLF(before) > 0
        /\ Consumed = SubSeq(before, 1, FirstCRLF(before) + 1)
        /\ wire_out = <<>>
        /\ issued = <<>>

(***************************************************************************)
(* C10: for a SELECT / EXAMINE batch whose tagged line is OK, each line    *)
(* matches at most one of the seven patterns, each field of the mailbox    *)
(* holds the value of the last line that matches its pattern, and a field  *)
(* no line matches keeps its default (exists 0, recent 0, flags empty, the *)
(* optional fields absent); a batch whose tagged line is not OK gives an   *)
(* error and no mailbox.                                                   *)
(***************************************************************************)
MailboxPatterns ==
    {EXISTS_REGEX, RECENT_REGEX, FLAGS_REGEX, UNSEEN_REGEX, UID_VALIDITY_REGEX,
     UID_NEXT_REGEX, PERMANENT_FLAGS_REGEX}

NumericPatterns ==
    {EXISTS_REGEX, RECENT_REGEX, UNSEEN_REGEX, UID_VALIDITY_REGEX, UID_NEXT_REGEX}

\* the index of the last line the pattern matches, 0 when there is none
LastMatch(re, lines) ==
    SetMax({0} \cup {i \in 1..Len(lines) : Captures(re, lines[i]) # <<>>})

\* the text the pattern captures on the last line it matches
FieldText(re, lines) == Captures(re, lines[LastMatch(re, lines)])[1][1]

Counted(re, lines) ==
    IF LastMatch(re, lines) = 0 THEN <<"0">> ELSE StripZeros(FieldText(re, lines))

OptionalNumber(re, lines) ==
    IF LastMatch(re, lines) = 0 THEN <<>> ELSE <<StripZeros(FieldText(re, lines))>>

ExpectedMailbox(lines) ==
    [flags |-> IF LastMatch(FLAGS_REGEX, lines) = 0 THEN <<>>
               ELSE FieldText(FLAGS_REGEX, lines),
     exists |-> Counted(EXISTS_REGEX, lines),
     recent |-> Counted(RECENT_REGEX, lines),
     unseen |-> OptionalNumber(UNSEEN_REGEX, lines),
     permanent_flags |-> IF LastMatch(PERMANENT_FLAGS_REGEX, lines) = 0 THEN <<>>
                         ELSE <<FieldText(PERMANENT_FLAGS_REGEX, lines)>>,
     uid_next |-> OptionalNumber(UID_NEXT_REGEX, lines),
     uid_validity |-> OptionalNumber(UID_VALIDITY_REGEX, lines)]

\* every number of the batch fits the 32 bits of its field
NumbersFit(lines) ==
    \A i \in 1..Len(lines) : \A re \in NumericPatterns :
        Captures(re, lines[i]) # <<>> => FitsIn(Captures(re, lines[i])[1][1], U32_MAX)

C10_MailboxFromLastMatches ==
    (op \in {"select", "examine"} /\ BatchEnded) =>
        /\ \A i \in 1..Len(batch) :
              Cardinality({re \in MailboxPatterns : Captures(re, batch[i]) # <<>>}) <= 1
        /\ SecondToken(batch[Len(batch)]) # T_OK =>
              result.kind = "Err" /\ result.mailbox = <<>>
        /\ (SecondToken(batch[Len(batch)]) = T_OK /\ NumbersFit(batch)) =>
              result.kind = "Ok"
        /\ result.kind = "Ok" => result.mailbox = <<ExpectedMailbox(batch)>>

\* a mailbox was selected from a batch with two EXISTS lines, a line no
\* pattern matches and fields no line gives
C10_Witness ==
    /\ op = "select"
    /\ result.kind = "Ok"
    /\ batch = <<S_EXISTS_172, S_EXISTS_5, L_A1_OK>>
    /\ result.mailbox[1].exists = <<"5">>
    /\ result.mailbox[1].recent = <<"0">>
    /\ result.mailbox[1].unseen = <<>>

(***************************************************************************)
(* SpecCapability: responses to CAPABILITY                                 *)
(***************************************************************************)
MaxCapabilityLines == 2

MaxCapabilityCmds == 1

K_THREE == T_CAPABILITY \o <<"I", "4", " ", "S", "T", " ", "A", "=", "P", CR, LF>>

K_DOUBLE_SPACE == T_CAPABILITY \o <<"A", " ", " ", "B", CR, LF>>

K_NONE == T_CAPABILITY \o <<CR, LF>>

K_NOT_CAPABILITY == <<"*", " ", "C", "A", "P", "A", "B", "I", "L", "I", "T", "Y", CR, LF>>

CapabilityLines == {K_THREE, K_DOUBLE_SPACE, K_NONE, K_NOT_CAPABILITY, L_EXISTS}

CapabilityStreams ==
    {GREETING \o Flatten(ls) \o tl :
        ls \in SeqsUpTo(CapabilityLines, MaxCapabilityLines), tl \in TaggedLines}

NextCapability ==
    \/ Connect
    \/ Capability
    \/ Noop

InitCapability ==
    \E s \in CapabilityStreams : InitState(s, <<>>, MaxCapabilityCmds)

SpecCapability == InitCapability /\ [][NextCapability]_vars

(***************************************************************************)
(* C11: for a CAPABILITY batch whose tagged line is OK, capability returns *)
(* the tokens of the batch's `* CAPABILITY <tokens>` line, split on single *)
(* spaces and in their order; without such a line it returns the error of  *)
(* a response that could not be parsed; when the tagged line is not OK it  *)
(* returns the command failure, whatever CAPABILITY line the batch holds.  *)
(***************************************************************************)
IsCapabilityLine(line) ==
    /\ starts_with(line, T_CAPABILITY)
    /\ Len(line) >= Len(T_CAPABILITY) + 2
    /\ SubSeq(line, Len(line) - 1, Len(line)) = T_CRLF

\* the text between "* CAPABILITY " and the CR LF of the line
CapabilityText(line) == SubSeq(line, Len(T_CAPABILITY) + 1, Len(line) - 2)

CapabilityLinesOf(lines) == {i \in 1..Len(lines) : IsCapabilityLine(lines[i])}

RECURSIVE Join(_)
\* the tokens put together again with single spaces
Join(tokens) ==
    IF Len(tokens) = 1 THEN tokens[1]
    ELSE tokens[1] \o <<" ">> \o Join(Tail(tokens))

C11_CapabilityTokens ==
    (op = "capability" /\ BatchEnded) =>
        /\ SecondToken(batch[Len(batch)]) # T_OK =>
              /\ result.kind = "Err"
              /\ result.err = <<OtherError(E_INVALID_RESPONSE \o batch[Len(batch)])>>
        /\ (SecondToken(batch[Len(batch)]) = T_OK /\ CapabilityLinesOf(batch) = {}) =>
              result = Err(OtherError(E_CAPABILITIES))
        /\ (SecondToken(batch[Len(batch)]) = T_OK /\ CapabilityLinesOf(batch) # {}) =>
              /\ result.kind = "Ok"
              /\ result.caps # <<>>
              /\ \A i \in 1..Len(result.caps) : \A j \in 1..Len(result.caps[i]) :
                    result.caps[i][j] # " "
              /\ Join(result.caps) =
                    CapabilityText(batch[SetMin(CapabilityLinesOf(batch))])

\* three capabilities were returned in the order of the line
C11_Witness ==
    /\ op = "capability"
    /\ batch = <<L_EXISTS, K_THREE, L_A1_OK>>
    /\ result.kind = "Ok"
    /\ result.caps = << <<"I", "4">>, <<"S", "T">>, <<"A", "=", "P">> >>

(***************************************************************************)
(* SpecRecover: one response per command, each completed OK, NO or BAD     *)
(***************************************************************************)
MaxRecoverCmds == 2

StatusWords == {<<"O", "K">>, <<"N", "O">>, <<"B", "A", "D">>}

\* the completion line of the i-th command with the given status word
Tagged(i, word) == command_tag_of(i) \o <<" ">> \o word \o <<" ", "t", CR, LF>>

UntaggedParts == {<<>>, L_EXISTS}

\* the responses the server may send to the i-th command
ResponsesTo(i) ==
    {[seq |-> Decimal(i), bytes |-> u \o Tagged(i, w)] :
        u \in UntaggedParts, w \in StatusWords}

\* the responses to the commands 1..n, in order
AllResponses(n) ==
    {rs \in [1..n -> UNION {ResponsesTo(i) : i \in 1..n}] :
        \A i \in 1..n : rs[i] \in ResponsesTo(i)}

\* the bytes of the responses from the i-th on
ResponsesFrom(rs, i) ==
    Flatten([k \in 1..(Len(rs) + 1 - i) |-> rs[i + k - 1].bytes])

NextRecover ==
    \/ Connect
    \/ Select
    \/ Noop
    \/ Capability

InitRecover ==
    \E rs \in AllResponses(MaxRecoverCmds) :
        InitState(GREETING \o ResponsesFrom(rs, 1), rs, MaxRecoverCmds)

SpecRecover == InitRecover /\ [][NextRecover]_vars

(***************************************************************************)
(* C12: after an operation fails because the server completed its command  *)
(* with a tagged NO or BAD, the connection stays usable: the failed        *)
(* command has consumed its own response and nothing else, the next        *)
(* command gets a fresh tag, and its batch is made of the lines of its own *)
(* response only, on which alone its result depends.                       *)
(***************************************************************************)
\* the command just run is the n-th and found the stream at its response
AtOwnResponse ==
    /\ op \in CollectOps
    /\ Len(issued) \in 1..Len(served)
    /\ wire_out # <<>>
    /\ before = ResponsesFrom(served, Len(issued))

OwnResponse == served[Len(issued)].bytes

C12_UsableAfterFailure ==
    AtOwnResponse =>
        /\ LastTag = command_tag_of(Len(issued))
        /\ \A j \in 1..(Len(issued) - 1) : issued[j] # LastTag
        /\ batch = LinesOf(OwnResponse)
        /\ stream = ResponsesFrom(served, Len(issued) + 1)
        /\ result.kind \in {"Ok", "Err"}
        /\ pc = "ready"
        /\ SecondToken(batch[Len(batch)]) # T_OK =>
              result = Err(OtherError(E_INVALID_RESPONSE \o batch[Len(batch)]))
        /\ (SecondToken(batch[Len(batch)]) = T_OK /\ op # "capability") =>
              result.kind = "Ok"

\* the first command failed on a tagged NO and the second succeeded on the
\* lines of its own response
C12_Witness ==
    /\ AtOwnResponse
    /\ Len(issued) = 2
    /\ SecondToken(LinesOf(served[1].bytes)[Len(LinesOf(served[1].bytes))]) = <<"N", "O">>
    /\ op = "select"
    /\ result.kind = "Ok"
    /\ batch = <<L_EXISTS, Tagged(2, T_OK)>>
    /\ result.mailbox[1].exists = <<"1">>

(***************************************************************************)
(* SpecNoop: NOOPs answered OK, then one SELECT, EXAMINE or CAPABILITY     *)
(***************************************************************************)
MaxNoops == 3

\* what a well-behaved server sends to the i-th command when it is a NOOP
NoopResponses(i) ==
    {[seq |-> Decimal(i), untagged |-> u, word |-> T_OK,
      bytes |-> u \o Tagged(i, T_OK)] : u \in UntaggedParts}

LaterParts == {<<>>, S_EXISTS_172 \o S_UNSEEN, L_CAPABILITY}

\* what the server sends to the command after the NOOPs
LaterResponses(i) ==
    {[seq |-> Decimal(i), untagged |-> u, word |-> w,
      bytes |-> u \o Tagged(i, w)] : u \in LaterParts, w \in {T_OK, <<"N", "O">>}}

RECURSIVE NoopPrefixes(_)
\* the responses to k NOOPs
NoopPrefixes(k) ==
    IF k = 0 THEN {<<>>}
    ELSE {Append(rs, r) : rs \in NoopPrefixes(k - 1), r \in NoopResponses(k)}

\* k NOOP responses and the response to the later command
NoopScripts(k) ==
    {Append(rs, r) : rs \in NoopPrefixes(k), r \in LaterResponses(k + 1)}

\* the client has issued only NOOPs and the later command comes next
LaterIsNext == Len(issued) + 1 = Len(served)

LaterSelect == LaterIsNext /\ Select

LaterExamine == LaterIsNext /\ Examine

LaterCapability == LaterIsNext /\ Capability

NextNoop ==
    \/ Connect
    \/ Noop
    \/ LaterSelect
    \/ LaterExamine
    \/ LaterCapability

InitNoop ==
    \E k \in 0..MaxNoops : \E rs \in NoopScripts(k) :
        InitState(GREETING \o ResponsesFrom(rs, 1), rs, MaxNoops + 1)

SpecNoop == InitNoop /\ [][NextNoop]_vars

(***************************************************************************)
(* C13: NOOP issued any number of times against a peer that answers each   *)
(* with `<tag> OK` always succeeds and changes nothing of the connection   *)
(* but the counter, advanced by one per call, and the stream, from which   *)
(* that call's response lines are consumed; the result of a later SELECT,  *)
(* EXAMINE or CAPABILITY is what it is when no NOOP was issued before.     *)
(***************************************************************************)
\* the response served to the later command, as sent to a first command
AsFirstResponse(r) == r.untagged \o Tagged(TAG_START, r.word)

\* the result of the operation when it is the first of a new connection
AsFirstCommand(name, r) ==
    IF name = "capability"
    THEN capability(AsFirstResponse(r), V_CAPABILITY, TAG_START, closing, "all").res
    ELSE select_or_examine(AsFirstResponse(r), V_SELECT, TAG_START, closing, "all").res

C13_NoopFrame ==
    /\ (op = "noop" /\ AtOwnResponse /\ served[Len(issued)].word = T_OK) =>
          /\ result = Ok
          /\ pc = "ready"
          /\ tag = TAG_START + Len(issued)
          /\ LastTag = command_tag_of(TAG_START + Len(issued) - 1)
          /\ stream = ResponsesFrom(served, Len(issued) + 1)
          /\ batch = LinesOf(OwnResponse)
    /\ (op \in {"select", "examine", "capability"} /\ AtOwnResponse) =>
          /\ result.kind = AsFirstCommand(op, served[Len(issued)]).kind
          /\ result.mailbox = AsFirstCommand(op, served[Len(issued)]).mailbox
          /\ result.caps = AsFirstCommand(op, served[Len(issued)]).caps
          /\ tag = TAG_START + Len(issued)
          /\ stream = <<>>

\* a mailbox was selected after three NOOPs
C13_Witness ==
    /\ op = "select"
    /\ AtOwnResponse
    /\ Len(issued) = 4
    /\ tag = 5
    /\ result.kind = "Ok"
    /\ result.mailbox[1].exists = <<"1", "7", "2">>
    /\ result.mailbox[1].unseen = <<<<"4">>>>

(***************************************************************************)
(* C14: whenever run_command_with_response returns a batch successfully,   *)
(* the batch is not empty, holds the lines the server sent, in order and   *)
(* none dropped, its last element is the tagged completion line of the     *)
(* issued command, no earlier element is tagged with that tag, and no byte *)
(* after the completion line has been consumed.                            *)
(***************************************************************************)
\* run_command_with_response returned Ok(lines) in the last operation
ReturnedBatch ==
    /\ op \in CollectOps
    /\ wire_out # <<>>
    /\ result.kind \notin {"Blocked", "Diverge"}

C14_BatchInvariants ==
    ReturnedBatch =>
        /\ batch # <<>>
        /\ batch = LinesOf(from_utf8_lossy(Consumed))
        /\ FirstToken(batch[Len(batch)]) = LastTag
        /\ \A i \in 1..(Len(batch) - 1) : FirstToken(batch[i]) # LastTag

(***************************************************************************)
(* C15: for every command text c, send_command transmits exactly the bytes *)
(* `<tag> c` CR LF, <tag> being the prefix and the decimal value the       *)
(* counter had before the call, hands that tag to its caller, and the      *)
(* whole line is written before the response is collected.                 *)
(***************************************************************************)
\* the command texts an operation may send
CommandTextsOf(name) ==
    CASE name = "login" -> {V_LOGIN \o SP \o u \o SP \o p : u \in Users, p \in Passwords}
      [] name = "select" -> {V_SELECT \o SP \o m : m \in MailboxNames}
      [] name = "examine" -> {V_EXAMINE \o SP \o m : m \in MailboxNames}
      [] name = "fetch" ->
            {V_FETCH \o SP \o ss \o SP \o q : ss \in SequenceSets, q \in Queries}
      [] name = "fetch_messages" ->
            {V_FETCH \o SP \o ss \o SP \o V_RFC822 : ss \in SequenceSets}
      [] name = "fetch_message" ->
            {V_FETCH \o SP \o Decimal(id) \o SP \o V_RFC822 : id \in MessageIds}
      [] name = "noop" -> {V_NOOP}
      [] name = "logout" -> {V_LOGOUT}
      [] name = "create" -> {V_CREATE \o SP \o m : m \in MailboxNames}
      [] name = "delete" -> {V_DELETE \o SP \o m : m \in MailboxNames}
      [] name = "rename" ->
            {V_RENAME \o SP \o m \o SP \o n : m \in MailboxNames, n \in MailboxNames}
      [] name = "subscribe" -> {V_SUBSCRIBE \o SP \o m : m \in MailboxNames}
      [] name = "unsubscribe" -> {V_UNSUBSCRIBE \o SP \o m : m \in MailboxNames}
      [] name = "capability" -> {V_CAPABILITY}
      [] name = "copy" ->
            {V_COPY \o SP \o ss \o SP \o m : ss \in SequenceSets, m \in MailboxNames}

\* send_command returned Ok(tag) in the last operation: its write did not fail
CommandSent == op \in CommandOps /\ ~(result = Err(IoError) /\ wire_out = <<>>)

C15_CommandBytes ==
    CommandSent =>
        /\ LastTag = TAG_PREFIX \o Decimal(tag - 1)
        /\ \E c \in CommandTextsOf(op) : wire_out = LastTag \o SP \o c \o <<CR, LF>>

(***************************************************************************)
(* C16: no input from the network crashes the process: for every server    *)
(* byte stream every command operation returns a success value or an error *)
(* value, and a numeric field that cannot be parsed is reported as an      *)
(* error.                                                                  *)
(***************************************************************************)
C16_NoCrash == op \in CommandOps => result.kind # "Panic"

(***************************************************************************)
(* C17: the mailbox status is read from the untagged lines of the batch,   *)
(* `* <text>` CR LF: after a successful SELECT / EXAMINE whose batch holds *)
(* `* OK [UNSEEN n] ...`, `* OK [UIDVALIDITY v] ...`, `* OK [UIDNEXT u]    *)
(* ...` or `* OK [PERMANENTFLAGS (...)]`, the mailbox has unseen = n,      *)
(* uid_validity = v, uid_next = u and the permanent flags of the line.     *)
(***************************************************************************)
\* the text of an untagged line, after its "* "
UntaggedText(line) ==
    IF starts_with(line, T_STAR_SP) THEN SubSeq(line, 3, Len(line)) ELSE <<>>

UntaggedTexts(lines) == [i \in 1..Len(lines) |-> UntaggedText(lines[i])]

\* a field of the mailbox agrees with the untagged lines of its code
CodeFieldGiven(re, lines, value) ==
    LastMatch(re, UntaggedTexts(lines)) # 0 =>
        value = <<FieldText(re, UntaggedTexts(lines))>>

CodeNumberGiven(re, lines, value) ==
    LastMatch(re, UntaggedTexts(lines)) # 0 =>
        value = <<StripZeros(FieldText(re, UntaggedTexts(lines)))>>

C17_UntaggedStatusCodes ==
    (op \in {"select", "examine"} /\ BatchEnded /\ result.kind = "Ok") =>
        /\ CodeNumberGiven(UNSEEN_REGEX, batch, result.mailbox[1].unseen)
        /\ CodeNumberGiven(UID_VALIDITY_REGEX, batch, result.mailbox[1].uid_validity)
        /\ CodeNumberGiven(UID_NEXT_REGEX, batch, result.mailbox[1].uid_next)
        /\ CodeFieldGiven(PERMANENT_FLAGS_REGEX, batch, result.mailbox[1].permanent_flags)

(***************************************************************************)
(* C18: every operation runs to completion: when the peer closes the       *)
(* stream (reads report end-of-stream) before the greeting's CR LF or the  *)
(* tagged completion line has arrived, connect and every command operation *)
(* return instead of reading forever, and the batch does not grow without  *)
(* bound.                                                                  *)
(***************************************************************************)
C18_ReturnsAtEndOfStream == closing = "eof" => result.kind # "Diverge"

====
